---- MODULE Spec2Model ----
(***************************************************************************)
(* The duplicate-detection service of the email agent                      *)
(* (src/src/services/rag_service.py, class RAGService): a vector store of  *)
(* email embeddings, the similarity query over it, and the batch grouping  *)
(* of duplicates.                                                          *)
(*                                                                         *)
(* Units.  A score is an integer number of 1/ScoreOne, so ScoreOne is the  *)
(* score 1.0; a distance is an integer number of 2/ScoreOne, which makes   *)
(* the code's  1 - distance/2  exact:  ScoreOne - distance.                *)
(*                                                                         *)
(* An email carries the text that is embedded (subject and the first 1000  *)
(* characters of the body); a text is named by the point of the embedding  *)
(* space the encoder sends it to, a point of the line 0..MaxVec.           *)
(***************************************************************************)
EXTENDS Integers, Sequences, FiniteSets, TLC

MaxVec == 3         \* embedding points are 0..MaxVec
MaxLimit == 2       \* find_similar_emails is called with limit in 1..MaxLimit
MaxBatch == 2       \* detect_duplicates is called with at most MaxBatch emails
ScoreOne == 4       \* the score 1.0, in score units
DefaultLimit == 10  \* find_similar_emails(..., limit: int = 10)

Ids == {"m1", "m2", "m3"}
Texts == 0..MaxVec
Emails == [id : Ids, text : Texts]
\* threshold: 0.0, the step below 1.0, and 1.0
Thresholds == {0, ScoreOne - 1, ScoreOne}
Limits == 1..MaxLimit

\* The emails of the mailbox a batch is drawn from: one fixed text per id.
InboxText == [i \in Ids |-> CASE i = "m1" -> 0 [] i = "m2" -> 1 [] OTHER -> 3]
InboxEmail(i) == [id |-> i, text |-> InboxText[i]]

VARIABLES
    store,       \* the collection "email_embeddings": id -> [document, embedding]
    collection,  \* self.collection: "live", or "stale" (handle of a deleted collection)
    pc,          \* "idle": no call in progress; "returned": a call has returned
    call,        \* the call that returned last, with its arguments and result
    loop         \* the event loop of the dashboard: its tasks and their positions

vars == <<store, collection, pc, call, loop>>

NoCall == [op |-> "none"]
EmptyStore == [i \in {} |-> 0]

\* The coroutines that run process_emails on the event loop of the dashboard.
Tasks == {"periodic", "manual"}
\* No cycle in progress.
NoCycle == [emails |-> <<>>, i |-> 0, at |-> "none", similar |-> {},
            afterAdd |-> EmptyStore]
\* The dashboard before its startup event.
NoLoop == [app |-> "init", periodic |-> "none", cancelled |-> FALSE,
           running |-> "none", last |-> "none", errorLogged |-> FALSE,
           cycle |-> [t \in Tasks |-> NoCycle]]

Min(a, b) == IF a <= b THEN a ELSE b

(***************************************************************************)
(* The embedder and the store (sentence-transformers and chromadb).        *)
(***************************************************************************)

\* Mutant: the sender is part of the text that is embedded.
EmbeddingTextWithSender(email) == email.text + (IF email.sender = "a@x.org" THEN 0 ELSE 1)

\* embedding_text = f"{email.subject}\n\n{email.body[:1000]}"
EmbeddingText(email) == email.text

\* self.embedding_model.encode(embedding_text)
Encode(text) == text

\* The collection's distance ("l2": the squared Euclidean distance).
Distance(u, v) == (u - v) * (u - v)

\* collection.count()
Count(st) == Cardinality(DOMAIN st)

\* collection.add(ids=[id], ...) on a reachable collection.  An id that is
\* already stored is not written again: the store keeps the first entry
\* (and, depending on the release, raises or only warns).
CollectionAdd(st, id, document, embedding) ==
    IF id \in DOMAIN st
    THEN st
    ELSE [i \in DOMAIN st \cup {id} |->
            IF i = id THEN [document |-> document, embedding |-> embedding]
                      ELSE st[i]]

\* All permutations of the ids: the order in which the index breaks ties.
TieOrders == {s \in [1..Cardinality(Ids) -> Ids] : \A i \in Ids : \E k \in DOMAIN s : s[k] = i}
Rank(tie, id) == CHOOSE k \in DOMAIN tie : tie[k] = id
AnyTie == CHOOSE t \in TieOrders : TRUE

\* Two stored items are equally far from the query: only then does the order
\* of ties show in a result.
TieMatters(st, q) ==
    \E a, b \in DOMAIN st :
        a # b /\ Distance(q, st[a].embedding) = Distance(q, st[b].embedding)

\* The orders of ties that can show in the results of the queries qs.
TiesFor(st, qs) == IF \E q \in qs : TieMatters(st, q) THEN TieOrders ELSE {AnyTie}

Nearer(st, q, tie, a, b) ==
    LET da == Distance(q, st[a].embedding)
        db == Distance(q, st[b].embedding)
    IN  da < db \/ (da = db /\ Rank(tie, a) < Rank(tie, b))

\* Every stored id, nearest to q first.
NearestFirst(st, q, tie) ==
    LET pos(i) == 1 + Cardinality({b \in DOMAIN st : Nearer(st, q, tie, b, i)})
    IN  [k \in 1..Count(st) |-> CHOOSE i \in DOMAIN st : pos(i) = k]

\* Mutant: n_results is not passed on, every stored item comes back.
CollectionQueryUnlimited(st, q, n, tie) ==
    LET ids == NearestFirst(st, q, tie)
    IN  [ids |-> ids,
         distances |-> [k \in DOMAIN ids |-> Distance(q, st[ids[k]].embedding)]]

\* collection.query(query_embeddings=[q], n_results=n, include=["distances", ...])
CollectionQuery(st, q, n, tie) ==
    LET ids == SubSeq(NearestFirst(st, q, tie), 1, Min(n, Count(st)))
    IN  [ids |-> ids,
         distances |-> [k \in DOMAIN ids |-> Distance(q, st[ids[k]].embedding)]]

(***************************************************************************)
(* RAGService.add_email                                                    *)
(***************************************************************************)

\* The try block: exc is TRUE when an exception leaves it; fails: the encoder
\* or the store raises during this call.
AddEmailTry(st, coll, email, fails, dupRaises) ==
    IF fails \/ coll = "stale"
    THEN [exc |-> TRUE, store |-> st]
    ELSE IF email.id \in DOMAIN st /\ dupRaises
    THEN [exc |-> TRUE, store |-> st]
    ELSE [exc |-> FALSE,
          store |-> CollectionAdd(st, email.id, EmbeddingText(email),
                                  Encode(EmbeddingText(email)))]

\* Mutant: the except clause logs the error and raises it again.
AddEmailReraising(st, coll, email, fails, dupRaises) ==
    LET r == AddEmailTry(st, coll, email, fails, dupRaises)
    IN  [exc |-> r.exc, logged |-> r.exc, store |-> r.store]

\* Mutant: no except clause, the exception leaves add_email.
AddEmailUncaught(st, coll, email, fails, dupRaises) ==
    LET r == AddEmailTry(st, coll, email, fails, dupRaises)
    IN  [exc |-> r.exc, logged |-> FALSE, store |-> r.store]

\* except Exception: logger.error(...)
AddEmailResult(st, coll, email, fails, dupRaises) ==
    LET r == AddEmailTry(st, coll, email, fails, dupRaises)
    IN  [exc |-> FALSE, logged |-> r.exc, store |-> r.store]

(***************************************************************************)
(* RAGService.find_similar_emails                                          *)
(***************************************************************************)

\* Mutant: the distance is not halved.
SimilarityNotHalved(distance) == ScoreOne - 2 * distance

\* similarity = 1 - (distance / 2)
Similarity(distance) == ScoreOne - distance

\* Mutant: the comparison is strict.
PassesStrictly(similarity, threshold) == similarity > threshold

\* if similarity >= threshold
Passes(similarity, threshold) == similarity >= threshold

\* Mutant: the self-match is not skipped.
IsSelfMatchNever(resultId, emailId) == FALSE

\* if email_id == email.id: continue
IsSelfMatch(resultId, emailId) == resultId = emailId

\* Mutant: each match is put in front of the list instead of at its end.
RECURSIVE ScanResultsPrepending(_, _, _, _, _)
ScanResultsPrepending(results, i, emailId, threshold, similar) ==
    IF i > Len(results.ids)
    THEN similar
    ELSE IF results.ids[i] = emailId \/ ScoreOne - results.distances[i] < threshold
    THEN ScanResultsPrepending(results, i + 1, emailId, threshold, similar)
    ELSE ScanResultsPrepending(results, i + 1, emailId, threshold,
             <<[id |-> results.ids[i], score |-> ScoreOne - results.distances[i]]>> \o similar)

\* for i, email_id in enumerate(results["ids"][0]): ...
RECURSIVE ScanResults(_, _, _, _, _)
ScanResults(results, i, emailId, threshold, similar) ==
    IF i > Len(results.ids)
    THEN similar
    ELSE IF IsSelfMatch(results.ids[i], emailId)
    THEN ScanResults(results, i + 1, emailId, threshold, similar)
    ELSE LET similarity == Similarity(results.distances[i])
         IN  IF Passes(similarity, threshold)
             THEN ScanResults(results, i + 1, emailId, threshold,
                              Append(similar, [id |-> results.ids[i], score |-> similarity]))
             ELSE ScanResults(results, i + 1, emailId, threshold, similar)

NoResults == [ids |-> <<>>, distances |-> <<>>]

\* similar_emails = []; the loop over results; return similar_emails
\* (results: what collection.query returned, kept for inspection).
ScanTry(results, email, threshold) ==
    [exc |-> FALSE, value |-> ScanResults(results, 1, email.id, threshold, <<>>),
     results |-> results]

\* Mutant: the store is asked for one neighbour more than limit.
FindSimilarTryExtraSlot(st, coll, email, threshold, limit, tie, fails) ==
    IF fails \/ coll = "stale"
    THEN [exc |-> TRUE, value |-> <<>>, results |-> NoResults]
    ELSE ScanTry(CollectionQuery(st, Encode(EmbeddingText(email)), limit + 1, tie),
                 email, threshold)

\* The try block: embedding, query, scan.
FindSimilarTry(st, coll, email, threshold, limit, tie, fails) ==
    IF fails \/ coll = "stale"
    THEN [exc |-> TRUE, value |-> <<>>, results |-> NoResults]
    ELSE ScanTry(CollectionQuery(st, Encode(EmbeddingText(email)), limit, tie),
                 email, threshold)

\* Mutant: no except clause, the exception leaves find_similar_emails.
FindSimilarUncaught(st, coll, email, threshold, limit, tie, fails) ==
    LET r == FindSimilarTry(st, coll, email, threshold, limit, tie, fails)
    IN  [exc |-> r.exc, logged |-> FALSE, value |-> r.value, results |-> r.results]

\* Mutant: the except clause logs the error and raises it again.
FindSimilarReraising(st, coll, email, threshold, limit, tie, fails) ==
    LET r == FindSimilarTry(st, coll, email, threshold, limit, tie, fails)
    IN  [exc |-> r.exc, logged |-> r.exc, value |-> r.value, results |-> r.results]

\* except Exception: logger.error(...); return []
FindSimilarEmails(st, coll, email, threshold, limit, tie, fails) ==
    LET r == FindSimilarTry(st, coll, email, threshold, limit, tie, fails)
    IN  IF r.exc
        THEN [exc |-> FALSE, logged |-> TRUE, value |-> <<>>, results |-> r.results]
        ELSE [exc |-> FALSE, logged |-> FALSE, value |-> r.value, results |-> r.results]

(***************************************************************************)
(* RAGService.detect_duplicates                                            *)
(***************************************************************************)

\* duplicate_ids = [eid for eid, _ in similar]
DuplicateIds(similar) == [k \in DOMAIN similar |-> similar[k].id]

\* Mutant: the scores are listed from the last match to the first.
SimilarityScoresReversed(similar) ==
    [k \in DOMAIN similar |-> similar[Len(similar) + 1 - k].score]

\* similarity_scores = [score for _, score in similar]
SimilarityScores(similar) == [k \in DOMAIN similar |-> similar[k].score]

\* DuplicateEmailGroup(primary_email_id=..., duplicate_ids=..., ...)
DuplicateEmailGroup(email, similar) ==
    [primary_email_id |-> email.id,
     duplicate_ids |-> DuplicateIds(similar),
     similarity_scores |-> SimilarityScores(similar),
     count |-> Len(similar) + 1]

Range(s) == {s[k] : k \in DOMAIN s}

\* Mutant: only the members are marked as processed.
MarkProcessedMembersOnly(processed, email, similar) ==
    processed \cup Range(DuplicateIds(similar))

\* Mutant: only the primary is marked as processed.
MarkProcessedPrimaryOnly(processed, email, similar) == processed \cup {email.id}

\* processed_ids.add(email.id); processed_ids.update(duplicate_ids)
MarkProcessed(processed, email, similar) ==
    processed \cup {email.id} \cup Range(DuplicateIds(similar))

\* Mutant: a group is formed whatever the query returned.
StartsGroupAlways(similar) == TRUE

\* if similar: (a non-empty list)
StartsGroup(similar) == similar # <<>>

\* Mutant: an item without a match is marked as processed.
DetectItemClaimingUnmatched(acc, i, email, r) ==
    IF r.exc
    THEN [acc EXCEPT !.exc = TRUE, !.queried = Append(@, i)]
    ELSE IF StartsGroup(r.value)
    THEN [acc EXCEPT !.queried = Append(@, i),
                     !.groups = Append(@, DuplicateEmailGroup(email, r.value)),
                     !.processed = MarkProcessed(@, email, r.value)]
    ELSE [acc EXCEPT !.queried = Append(@, i), !.processed = @ \cup {email.id}]

\* Mutant: a new group is put in front of the list.
DetectItemPrepending(acc, i, email, r) ==
    IF r.exc
    THEN [acc EXCEPT !.exc = TRUE, !.queried = Append(@, i)]
    ELSE IF StartsGroup(r.value)
    THEN [acc EXCEPT !.queried = Append(@, i),
                     !.groups = <<DuplicateEmailGroup(email, r.value)>> \o @,
                     !.processed = MarkProcessed(@, email, r.value)]
    ELSE [acc EXCEPT !.queried = Append(@, i)]

\* The body of the loop for an email that is not yet processed, given what
\* find_similar_emails returned (r).
DetectItem(acc, i, email, r) ==
    IF r.exc
    THEN [acc EXCEPT !.exc = TRUE, !.queried = Append(@, i)]
    ELSE IF StartsGroup(r.value)
    THEN [acc EXCEPT !.queried = Append(@, i),
                     !.groups = Append(@, DuplicateEmailGroup(email, r.value)),
                     !.processed = MarkProcessed(@, email, r.value)]
    ELSE [acc EXCEPT !.queried = Append(@, i)]

\* Mutant: processed ids are not skipped.
RECURSIVE DetectLoopNoSkip(_, _, _, _, _, _, _, _)
DetectLoopNoSkip(st, coll, emails, i, threshold, tie, failing, acc) ==
    IF i > Len(emails) \/ acc.exc
    THEN acc
    ELSE DetectLoopNoSkip(st, coll, emails, i + 1, threshold, tie, failing,
             DetectItem(acc, i, emails[i],
                        FindSimilarEmails(st, coll, emails[i], threshold, DefaultLimit,
                                          tie, i \in failing)))

\* for email in emails: ...   acc = [exc, groups, processed, queried];
\* queried lists the positions for which find_similar_emails was called.
RECURSIVE DetectLoop(_, _, _, _, _, _, _, _)
DetectLoop(st, coll, emails, i, threshold, tie, failing, acc) ==
    IF i > Len(emails) \/ acc.exc
    THEN acc
    ELSE IF emails[i].id \in acc.processed
    THEN DetectLoop(st, coll, emails, i + 1, threshold, tie, failing, acc)
    ELSE DetectLoop(st, coll, emails, i + 1, threshold, tie, failing,
             DetectItem(acc, i, emails[i],
                        FindSimilarEmails(st, coll, emails[i], threshold, DefaultLimit,
                                          tie, i \in failing)))

\* try: ... return duplicate_groups   except Exception: ... return []
DetectDuplicates(st, coll, emails, threshold, tie, failing) ==
    LET r == DetectLoop(st, coll, emails, 1, threshold, tie, failing,
                        [exc |-> FALSE, groups |-> <<>>, processed |-> {}, queried |-> <<>>])
    IN  IF r.exc
        THEN [exc |-> FALSE, logged |-> TRUE, value |-> <<>>, queried |-> r.queried]
        ELSE [exc |-> FALSE, logged |-> FALSE, value |-> r.groups, queried |-> r.queried]

(***************************************************************************)
(* RAGService.get_email_count and RAGService.clear_store                   *)
(***************************************************************************)

\* Mutant: no except clause, the exception leaves get_email_count.
GetEmailCountUncaught(st, coll, fails) ==
    IF fails \/ coll = "stale"
    THEN [exc |-> TRUE, value |-> 0]
    ELSE [exc |-> FALSE, value |-> Count(st)]

\* try: return self.collection.count()   except Exception: return 0
GetEmailCount(st, coll, fails) ==
    IF fails \/ coll = "stale"
    THEN [exc |-> FALSE, value |-> 0]
    ELSE [exc |-> FALSE, value |-> Count(st)]

\* Mutant: the collection is fetched again instead of deleted and created.
ClearStoreKeeping(st, coll, deleteFails, createFails) ==
    IF deleteFails \/ createFails
    THEN [exc |-> FALSE, logged |-> TRUE, store |-> st, collection |-> coll]
    ELSE [exc |-> FALSE, logged |-> FALSE, store |-> st, collection |-> "live"]

\* try: delete_collection(...); self.collection = create_collection(...)
\* except Exception: logger.error(...)
\* A failing delete leaves everything as it was; a create that fails after the
\* delete leaves self.collection the handle of the deleted collection.
ClearStoreResult(st, coll, deleteFails, createFails) ==
    IF deleteFails
    THEN [exc |-> FALSE, logged |-> TRUE, store |-> st, collection |-> coll]
    ELSE IF createFails
    THEN [exc |-> FALSE, logged |-> TRUE, store |-> EmptyStore, collection |-> "stale"]
    ELSE [exc |-> FALSE, logged |-> FALSE, store |-> EmptyStore, collection |-> "live"]

\* What a new RAGService finds in the collection "email_embeddings" after the
\* process that held st has ended.  chromadb.Client(Settings(persist_directory
\* = ...)) is the in-memory client: the directory is created but nothing is
\* written to it, in the releases that select persistence by chroma_db_impl
\* as in those that select it by is_persistent or PersistentClient.
Persisted(st) == EmptyStore

(***************************************************************************)
(* The service as a state machine: one action per method.                  *)
(***************************************************************************)

Init ==
    /\ store = EmptyStore
    /\ collection = "live"
    /\ pc = "idle"
    /\ call = NoCall
    /\ loop = NoLoop

AddEmail ==
    /\ pc = "idle"
    /\ \E email \in Emails, fails, dupRaises \in BOOLEAN :
         \E r \in {AddEmailResult(store, collection, email, fails, dupRaises)} :
             /\ store' = r.store
             /\ call' = [op |-> "add_email", email |-> email, fails |-> fails,
                         exc |-> r.exc, logged |-> r.logged, before |-> store]
    /\ pc' = "returned"
    /\ UNCHANGED loop
    /\ UNCHANGED collection

FindSimilar ==
    /\ pc = "idle"
    /\ \E email \in Emails, threshold \in Thresholds, limit \in Limits,
          tie \in TieOrders, fails \in BOOLEAN :
         /\ (fails => tie = AnyTie)
         /\ tie \in TiesFor(store, {Encode(EmbeddingText(email))})
         /\ \E r \in {FindSimilarEmails(store, collection, email, threshold, limit, tie, fails)} :
                call' = [op |-> "find_similar_emails", email |-> email,
                         threshold |-> threshold, limit |-> limit, fails |-> fails,
                         retrieved |-> r.results,
                         exc |-> r.exc, logged |-> r.logged, value |-> r.value]
    /\ pc' = "returned"
    /\ UNCHANGED loop
    /\ UNCHANGED <<store, collection>>

GetCount ==
    /\ pc = "idle"
    /\ \E fails \in BOOLEAN :
         \E r \in {GetEmailCount(store, collection, fails)} :
             call' = [op |-> "get_email_count", fails |-> fails,
                      exc |-> r.exc, value |-> r.value]
    /\ pc' = "returned"
    /\ UNCHANGED loop
    /\ UNCHANGED <<store, collection>>

ClearStore ==
    /\ pc = "idle"
    /\ \E deleteFails, createFails \in BOOLEAN :
         \E r \in {ClearStoreResult(store, collection, deleteFails, createFails)} :
             /\ store' = r.store
             /\ collection' = r.collection
             /\ call' = [op |-> "clear_store", deleteFails |-> deleteFails,
                         createFails |-> createFails, exc |-> r.exc,
                         logged |-> r.logged, before |-> store]
    /\ pc' = "returned"
    /\ UNCHANGED loop

\* Batches: up to MaxBatch emails of the mailbox, ids may repeat.
Batches == UNION {[1..n -> {InboxEmail(i) : i \in Ids}] : n \in 0..MaxBatch}

\* Mutant: detect_duplicates adds the first email of the batch to the index.
DetectBatchIngesting ==
    /\ pc = "idle"
    /\ \E emails \in Batches, threshold \in Thresholds :
         \E r \in {DetectDuplicates(store, collection, emails, threshold, AnyTie, {})} :
             /\ store' = IF emails = <<>> THEN store
                          ELSE CollectionAdd(store, emails[1].id, EmbeddingText(emails[1]),
                                             Encode(EmbeddingText(emails[1])))
             /\ call' = [op |-> "detect_duplicates", emails |-> emails,
                         threshold |-> threshold, failing |-> {},
                         exc |-> r.exc, logged |-> r.logged, value |-> r.value,
                         queried |-> r.queried]
    /\ pc' = "returned"
    /\ UNCHANGED loop
    /\ UNCHANGED collection

\* failing: the positions of the batch at which the encoder or the store
\* raises, should the loop query them.
DetectBatch ==
    /\ pc = "idle"
    /\ \E emails \in Batches, threshold \in Thresholds, tie \in TieOrders :
       /\ tie \in TiesFor(store, {Encode(EmbeddingText(emails[j])) : j \in DOMAIN emails})
       /\ \E failing \in SUBSET DOMAIN emails :
           \E r \in {DetectDuplicates(store, collection, emails, threshold, tie, failing)} :
             /\ failing \subseteq Range(r.queried)
             /\ call' = [op |-> "detect_duplicates", emails |-> emails,
                         threshold |-> threshold, failing |-> failing,
                         exc |-> r.exc, logged |-> r.logged, value |-> r.value,
                         queried |-> r.queried]
    /\ pc' = "returned"
    /\ UNCHANGED loop
    /\ UNCHANGED <<store, collection>>

\* The process ends and a new one constructs RAGService on the same settings:
\* self.collection = self.client.get_or_create_collection("email_embeddings")
Restart ==
    /\ pc = "idle"
    /\ store' = Persisted(store)
    /\ collection' = "live"
    /\ call' = [op |-> "restart", before |-> store]
    /\ pc' = "returned"
    /\ UNCHANGED loop

\* The caller takes the result; the service is ready for the next call.
Return ==
    /\ pc = "returned"
    /\ pc' = "idle"
    /\ UNCHANGED loop
    /\ call' = NoCall
    /\ UNCHANGED <<store, collection>>

\* The index and its queries.
NextIndex == AddEmail \/ FindSimilar \/ GetCount \/ ClearStore \/ Restart \/ Return
SpecIndex == Init /\ [][NextIndex]_vars

\* The index and batch detection.
NextBatch == AddEmail \/ ClearStore \/ DetectBatch \/ Return
SpecBatch == Init /\ [][NextBatch]_vars

Next == AddEmail \/ FindSimilar \/ GetCount \/ ClearStore \/ DetectBatch \/ Restart \/ Return
Spec == Init /\ [][Next]_vars

(***************************************************************************)
(* Vocabulary of the properties.                                           *)
(***************************************************************************)

Found == pc = "returned" /\ call.op = "find_similar_emails"
Detected == pc = "returned" /\ call.op = "detect_duplicates"
Added == pc = "returned" /\ call.op = "add_email"
Cleared == pc = "returned" /\ call.op = "clear_store"

\* The score the specification gives a distance: 1 - distance/2.
SpecScore(distance) == ScoreOne - distance

\* The distance and the score of a stored id with respect to an email.
DistanceTo(email, id) == Distance(Encode(EmbeddingText(email)), store[id].embedding)
ScoreOf(email, id) == SpecScore(DistanceTo(email, id))

\* The ids of a match list, and the position of an id in it (0: absent).
MatchIds(value) == {value[k].id : k \in DOMAIN value}
PositionOf(value, id) ==
    IF id \in MatchIds(value) THEN CHOOSE k \in DOMAIN value : value[k].id = id ELSE 0

\* Every id of every group, primaries and members, as one sequence.
RECURSIVE GroupIds(_)
GroupIds(groups) ==
    IF groups = <<>>
    THEN <<>>
    ELSE <<groups[1].primary_email_id>> \o groups[1].duplicate_ids \o GroupIds(Tail(groups))

NoRepeat(s) == \A j, k \in DOMAIN s : j # k => s[j] # s[k]

(***************************************************************************)
(* C1  Cluster exclusivity: over the groups one detect_duplicates call     *)
(* returns, no id occurs twice among the primaries and the members.        *)
(* The loop skips processed ids as primaries only; the members of a later  *)
(* group are not checked against processed_ids, so this fails.             *)
(***************************************************************************)
C1_ClusterExclusivity == Detected => NoRepeat(GroupIds(call.value))

(***************************************************************************)
(* C2  Idempotent insert: add_email of an id that is already stored, with  *)
(* a different text and no failure of the embedder or the store, leaves    *)
(* the count unchanged and leaves the second text stored, without error.   *)
(* collection.add keeps the first entry, so this fails.                    *)
(***************************************************************************)
C2_ReplaceOnConflict ==
    (/\ Added
     /\ ~call.fails
     /\ collection = "live"
     /\ call.email.id \in DOMAIN call.before
     /\ call.before[call.email.id].document # EmbeddingText(call.email))
    => /\ Count(store) = Count(call.before)
       /\ store[call.email.id].document = EmbeddingText(call.email)
       /\ ~call.exc
       /\ ~call.logged

(***************************************************************************)
(* C3  Self-exclusion: a similarity query for an email never returns a     *)
(* match whose id is the email's own id, whatever the index holds.         *)
(***************************************************************************)
C3_SelfExclusion == Found => call.email.id \notin MatchIds(call.value)

\* A query whose email is stored and came back from the store among the
\* neighbours, next to a neighbour that is returned.
C3_Witness ==
    /\ Found
    /\ call.email.id \in Range(call.retrieved.ids)
    /\ call.value # <<>>

(***************************************************************************)
(* C4  Threshold filter: a match is returned only if its score is at least *)
(* the threshold, and every neighbour the store retrieved, other than the  *)
(* email itself, whose score is at least the threshold is returned (a      *)
(* score equal to the threshold included).                                 *)
(***************************************************************************)
C4_ThresholdFilter ==
    Found =>
      /\ \A k \in DOMAIN call.value :
            /\ call.value[k].score >= call.threshold
            /\ ScoreOf(call.email, call.value[k].id) >= call.threshold
      /\ \A j \in DOMAIN call.retrieved.ids :
            (/\ call.retrieved.ids[j] # call.email.id
             /\ SpecScore(call.retrieved.distances[j]) >= call.threshold)
            => call.retrieved.ids[j] \in MatchIds(call.value)

\* A query that returns a neighbour scoring exactly the threshold and drops
\* a retrieved neighbour scoring less.
C4_Witness ==
    /\ Found
    /\ \E k \in DOMAIN call.value : call.value[k].score = call.threshold
    /\ \E j \in DOMAIN call.retrieved.ids :
          /\ call.retrieved.ids[j] # call.email.id
          /\ SpecScore(call.retrieved.distances[j]) < call.threshold
          /\ call.retrieved.ids[j] \notin MatchIds(call.value)

(***************************************************************************)
(* C5  Threshold monotonicity, as claimed: for stored items B and C other  *)
(* than the queried email A, if score(A,B) >= score(A,C) and both exceed   *)
(* the threshold, then B comes before C in the result of a query for A     *)
(* that succeeds with limit >= 2.  Fails: two items of equal score cannot  *)
(* each precede the other, and the limit can cut C (or both) off.          *)
(***************************************************************************)
C5_MonotonicityAsClaimed ==
    (Found /\ ~call.logged /\ call.limit >= 2) =>
      \A B, C \in DOMAIN store \ {call.email.id} :
        (/\ B # C
         /\ ScoreOf(call.email, B) >= ScoreOf(call.email, C)
         /\ ScoreOf(call.email, B) > call.threshold
         /\ ScoreOf(call.email, C) > call.threshold)
        => /\ PositionOf(call.value, B) > 0
           /\ PositionOf(call.value, C) > 0
           /\ PositionOf(call.value, B) < PositionOf(call.value, C)

(***************************************************************************)
(* C5  amended: if score(A,B) > score(A,C), both exceed the threshold and  *)
(* C is in the result of a query for A with limit >= 2, then B is in the   *)
(* result too, before C.                                                   *)
(***************************************************************************)
C5_Monotonicity ==
    (Found /\ call.limit >= 2) =>
      \A B, C \in DOMAIN store \ {call.email.id} :
        (/\ ScoreOf(call.email, B) > ScoreOf(call.email, C)
         /\ ScoreOf(call.email, B) > call.threshold
         /\ ScoreOf(call.email, C) > call.threshold
         /\ PositionOf(call.value, C) > 0)
        => /\ PositionOf(call.value, B) > 0
           /\ PositionOf(call.value, B) < PositionOf(call.value, C)

\* A query that returns two matches of different scores, both above the threshold.
C5_Witness ==
    /\ Found
    /\ call.limit >= 2
    /\ \E B, C \in MatchIds(call.value) :
          /\ ScoreOf(call.email, B) > ScoreOf(call.email, C)
          /\ ScoreOf(call.email, C) > call.threshold

(***************************************************************************)
(* C6  Limit and nearest-first: a query returns at most `limit` matches,   *)
(* their scores never increase along the list, the queried id is not among *)
(* them, and no stored item other than the queried id with a score of at   *)
(* least the threshold is left out while a match farther away is returned. *)
(***************************************************************************)
C6_LimitNearestFirst ==
    Found =>
      /\ Len(call.value) <= call.limit
      /\ \A k \in DOMAIN call.value :
            k < Len(call.value) => call.value[k].score >= call.value[k + 1].score
      /\ call.email.id \notin MatchIds(call.value)
      /\ \A s \in DOMAIN store \ {call.email.id} :
            (/\ ScoreOf(call.email, s) >= call.threshold
             /\ \E k \in DOMAIN call.value :
                   DistanceTo(call.email, s) < DistanceTo(call.email, call.value[k].id))
            => s \in MatchIds(call.value)

\* A query that the limit cuts short: `limit` matches are returned and a
\* stored item that passes the threshold is left out.
C6_Witness ==
    /\ Found
    /\ Len(call.value) = call.limit
    /\ \E s \in DOMAIN store \ {call.email.id} :
          /\ ScoreOf(call.email, s) >= call.threshold
          /\ s \notin MatchIds(call.value)

(***************************************************************************)
(* C7  Score range: for a threshold in [0,1], every returned match carries *)
(* the score 1 - distance/2 of its stored vector, which lies in [0,1];     *)
(* the score is 1 exactly at distance 0, and of two matches the one with   *)
(* the larger score is the one at the smaller distance.                    *)
(***************************************************************************)
C7_ScoreRange ==
    Found =>
      \A k \in DOMAIN call.value :
        LET m == call.value[k]
        IN  /\ m.score = SpecScore(DistanceTo(call.email, m.id))
            /\ m.score >= 0
            /\ m.score <= ScoreOne
            /\ (m.score = ScoreOne <=> DistanceTo(call.email, m.id) = 0)
            /\ \A j \in DOMAIN call.value :
                  call.value[j].score > m.score
                  <=> DistanceTo(call.email, call.value[j].id) < DistanceTo(call.email, m.id)

\* A query at threshold 0 that returns a match although the store also
\* handed back a neighbour farther than distance 2, whose 1 - distance/2
\* is negative.
C7_Witness ==
    /\ Found
    /\ call.threshold = 0
    /\ call.value # <<>>
    /\ \E j \in DOMAIN call.retrieved.ids :
          /\ call.retrieved.ids[j] # call.email.id
          /\ SpecScore(call.retrieved.distances[j]) < 0

(***************************************************************************)
(* Failures.                                                               *)
(***************************************************************************)

\* The email has a stored neighbour, other than itself, that passes the threshold.
HasMatch(email, threshold) ==
    \E s \in DOMAIN store \ {email.id} : ScoreOf(email, s) >= threshold

\* The positions of a batch whose query was made and did not fail.
Succeeded == {i \in Range(call.queried) : i \notin call.failing /\ collection = "live"}

\* The groups the same call returns when nothing fails.
Unfailing == DetectDuplicates(store, collection, call.emails, call.threshold, AnyTie, {}).value

Counted == pc = "returned" /\ call.op = "get_email_count"
Restarted == pc = "returned" /\ call.op = "restart"

(***************************************************************************)
(* C11  get_email_count never raises; it returns the number of distinct    *)
(* ids stored when the store answers, hence 0 before any insert, and 0     *)
(* when the store fails.                                                   *)
(***************************************************************************)
C11_CountOrZero ==
    Counted =>
      /\ ~call.exc
      /\ (~call.fails /\ collection = "live") => call.value = Cardinality(DOMAIN store)
      /\ (call.fails \/ collection = "stale") => call.value = 0
      /\ store = EmptyStore => call.value = 0

\* The store fails while it holds items: the count returned is 0.
C11_Witness ==
    /\ Counted
    /\ call.fails
    /\ Count(store) > 0
    /\ call.value = 0

(***************************************************************************)
(* C12  Durability: the items stored when the process ends are stored      *)
(* after a new RAGService has been constructed on the same directory.      *)
(* The client is constructed without a persistent backend, so this fails:  *)
(* the new service starts with an empty collection.                        *)
(***************************************************************************)
C12_Durability == Restarted => store = call.before

(***************************************************************************)
(* C13  Empty-index safety: on a store that holds no item (never filled,   *)
(* cleared, or cleared with the re-creation failed) find_similar_emails    *)
(* returns the empty list without raising, and detect_duplicates returns   *)
(* no group without raising.                                               *)
(***************************************************************************)
C13_EmptyIndexSafety ==
    store = EmptyStore =>
      /\ Found => (call.value = <<>> /\ ~call.exc)
      /\ Detected => (call.value = <<>> /\ ~call.exc)

\* A non-empty batch checked against an empty, working store.
C13_Witness ==
    /\ Detected
    /\ store = EmptyStore
    /\ collection = "live"
    /\ call.failing = {}
    /\ Len(call.emails) > 0

(***************************************************************************)
(* Checking the whole content of the index: the batch is the stored        *)
(* emails, each once, in any order.                                        *)
(***************************************************************************)

\* The email that was stored under an id.
StoredEmail(st, i) == [id |-> i, text |-> st[i].document]

\* The stored emails in every order.
StoredBatches(st) ==
    {[k \in 1..Cardinality(Ids) |-> StoredEmail(st, order[k])] : order \in TieOrders}

\* detect_duplicates(emails, threshold) over all the emails of a full index.
DetectStored ==
    /\ pc = "idle"
    /\ DOMAIN store = Ids
    /\ \E emails \in StoredBatches(store), threshold \in Thresholds, tie \in TieOrders :
       /\ tie \in TiesFor(store, {Encode(EmbeddingText(emails[j])) : j \in DOMAIN emails})
       /\ \E failing \in SUBSET DOMAIN emails :
           \E r \in {DetectDuplicates(store, collection, emails, threshold, tie, failing)} :
             /\ failing \subseteq Range(r.queried)
             /\ call' = [op |-> "detect_duplicates", emails |-> emails,
                         threshold |-> threshold, failing |-> failing,
                         exc |-> r.exc, logged |-> r.logged, value |-> r.value,
                         queried |-> r.queried]
    /\ pc' = "returned"
    /\ UNCHANGED loop
    /\ UNCHANGED <<store, collection>>

\* The index is filled, then checked as a whole.
NextStored == AddEmail \/ DetectStored \/ Return
SpecStored == Init /\ [][NextStored]_vars

\* The score of two stored items.
StoredScore(a, b) == SpecScore(Distance(store[a].embedding, store[b].embedding))

\* a and b are similar; c is similar to neither.
OnlyPair(a, b, c, threshold) ==
    /\ StoredScore(a, b) >= threshold
    /\ StoredScore(a, c) < threshold
    /\ StoredScore(b, c) < threshold

(***************************************************************************)
(* C14  With three items stored of which only the pair (a, b) reaches the  *)
(* threshold, detect_duplicates over the three items, in any order and     *)
(* with no failure, returns exactly one group: its primary is a or b, its  *)
(* only member is the other, and c is in no group.                         *)
(***************************************************************************)
C14_OnePairOneGroup ==
    \A a, b, c \in Ids :
      (/\ Detected
       /\ call.failing = {}
       /\ {a, b, c} = Ids
       /\ OnlyPair(a, b, c, call.threshold))
      => /\ Len(call.value) = 1
         /\ \/ (call.value[1].primary_email_id = a /\ call.value[1].duplicate_ids = <<b>>)
            \/ (call.value[1].primary_email_id = b /\ call.value[1].duplicate_ids = <<a>>)
         /\ \A k \in DOMAIN GroupIds(call.value) : GroupIds(call.value)[k] # c

\* The batch [c, b, a]: c starts no group, b starts the group and claims a.
C14_Witness ==
    /\ Detected
    /\ call.failing = {}
    /\ OnlyPair("m1", "m2", "m3", call.threshold)
    /\ call.emails[1].id = "m3"
    /\ call.emails[2].id = "m2"
    /\ call.value[1].primary_email_id = "m2"

(***************************************************************************)
(* The processing cycle (src/my_agent/agent.py, EmailAgent.process_emails).*)
(* A cycle has no point at which it yields, so it is one step.             *)
(***************************************************************************)

\* What gmail_service.fetch_emails returns: unread emails of the mailbox,
\* each once; the empty list when there is none or when fetching fails.
Fetched ==
    {emails \in Batches : \A j, k \in DOMAIN emails : j # k => emails[j].id # emails[k].id}

\* The inputs of a cycle other than the emails: settings and the outcomes of
\* the calls to the embedder, the store, the classifier and the mail sender.
\* addFailing, findFailing: the positions at which add_email and
\* find_similar_emails meet a failure (for add_email, a store that raises
\* for an id it already holds is one of them); embedderDown: these failures
\* are raised by encode (otherwise by the store call); jobRelated: the positions
\* is_job_related answers yes for; sendFails: send_email fails or raises.
\* The stored embeddings of a cycle are those of mailbox emails, whose
\* distances to one another differ, so the order of ties has no effect here.
CycleInputs(emails) ==
    {env \in [threshold : Thresholds, addFailing : SUBSET DOMAIN emails,
              findFailing : SUBSET DOMAIN emails,
              embedderDown : BOOLEAN,
              autoResponse : BOOLEAN, jobRelated : SUBSET DOMAIN emails,
              sendFails : BOOLEAN] :
        /\ ~env.autoResponse => env.jobRelated = {}
        /\ env.sendFails => env.jobRelated # {}
        /\ env.embedderDown => env.addFailing \cup env.findFailing # {}}

\* The calls add_email issues to the embedder and the store, in order:
\* encode, then collection.add unless encode raised.
AddEmailCalls(fails, embedderDown) ==
    IF fails /\ embedderDown THEN <<"encode">> ELSE <<"encode", "add">>

\* The calls find_similar_emails issues: encode, then collection.query
\* unless encode raised.
FindSimilarCalls(fails, embedderDown) ==
    IF fails /\ embedderDown THEN <<"encode">> ELSE <<"encode", "query">>

\* Mutant: an exception of the send leaves _handle_job_email.
HandleJobEmailUncaught(sendFails) == [exc |-> sendFails, replied |-> ~sendFails]

\* _handle_job_email: generate the response, send it; every exception is
\* caught and logged, a send that returns False is logged.
HandleJobEmail(sendFails) == [exc |-> FALSE, replied |-> ~sendFails]

\* The record of an email whose round an exception has left.
Aborted(id, added, calls, summarized) ==
    [id |-> id, add_returned |-> added, similar |-> <<>>, calls |-> calls,
     summarized |-> summarized, job |-> FALSE, replied |-> FALSE, marked |-> FALSE]

\* Mutant: the email is queried but not added.
ProcessItemNotAdding(st, coll, email, i, env) ==
    LET f == FindSimilarEmails(st, coll, email, env.threshold, DefaultLimit, AnyTie,
                               i \in env.findFailing)
    IN  [exc |-> FALSE, store |-> st,
         item |-> [id |-> email.id, add_returned |-> FALSE, similar |-> f.value,
                   calls |-> FindSimilarCalls(i \in env.findFailing, env.embedderDown),
                   summarized |-> TRUE, job |-> i \in env.jobRelated,
                   replied |-> i \in env.jobRelated /\ ~env.sendFails,
                   marked |-> TRUE]]

\* One round of the loop: add_email, find_similar_emails, summarize_email,
\* the reply to a job email, mark_as_read.  The last three catch their own
\* errors; an exception of the first two would leave the loop.
ProcessItem(st, coll, email, i, env) ==
    LET a == AddEmailResult(st, coll, email, i \in env.addFailing, FALSE)
        ac == AddEmailCalls(i \in env.addFailing, env.embedderDown)
        f == FindSimilarEmails(a.store, coll, email, env.threshold, DefaultLimit, AnyTie,
                               i \in env.findFailing)
        fc == FindSimilarCalls(i \in env.findFailing, env.embedderDown)
        job == i \in env.jobRelated
        h == HandleJobEmail(env.sendFails)
    IN  IF a.exc
        THEN [exc |-> TRUE, store |-> a.store, item |-> Aborted(email.id, FALSE, ac, FALSE)]
        ELSE IF f.exc
        THEN [exc |-> TRUE, store |-> a.store,
              item |-> Aborted(email.id, TRUE, ac \o fc, FALSE)]
        ELSE IF job /\ h.exc
        THEN [exc |-> TRUE, store |-> a.store,
              item |-> Aborted(email.id, TRUE, ac \o fc, TRUE)]
        ELSE [exc |-> FALSE, store |-> a.store,
              item |-> [id |-> email.id, add_returned |-> TRUE, similar |-> f.value,
                        calls |-> ac \o fc, summarized |-> TRUE, job |-> job,
                        replied |-> job /\ h.replied, marked |-> TRUE]]

\* for email in emails: ...
RECURSIVE ProcessLoop(_, _, _, _, _, _)
ProcessLoop(st, coll, emails, i, env, items) ==
    IF i > Len(emails)
    THEN [exc |-> FALSE, store |-> st, items |-> items]
    ELSE LET r == ProcessItem(st, coll, emails[i], i, env)
         IN  IF r.exc
             THEN [exc |-> TRUE, store |-> r.store, items |-> Append(items, r.item)]
             ELSE ProcessLoop(r.store, coll, emails, i + 1, env, Append(items, r.item))

\* len(duplicates_found): the emails for which `if similar` held
DuplicatesFound(items) == Cardinality({k \in DOMAIN items : items[k].similar # <<>>})

\* job_responses_sent: the emails handed to _handle_job_email
JobResponsesSent(items) == Cardinality({k \in DOMAIN items : items[k].job})

\* process_emails: the statistics it returns, and the store it leaves.
ProcessEmailsResult(st, coll, emails, env) ==
    IF emails = <<>>
    THEN [status |-> "success", emails_processed |-> 0, duplicates_found |-> 0,
          job_responses_sent |-> 0, items |-> <<>>, store |-> st]
    ELSE LET r == ProcessLoop(st, coll, emails, 1, env, <<>>)
         IN  IF r.exc
             THEN [status |-> "error", emails_processed |-> 0, duplicates_found |-> 0,
                   job_responses_sent |-> 0, items |-> r.items, store |-> r.store]
             ELSE [status |-> "success", emails_processed |-> Len(emails),
                   duplicates_found |-> DuplicatesFound(r.items),
                   job_responses_sent |-> JobResponsesSent(r.items),
                   items |-> r.items, store |-> r.store]

ProcessEmails ==
    /\ pc = "idle"
    /\ \E emails \in Fetched :
       \E env \in CycleInputs(emails) :
         \E r \in {ProcessEmailsResult(store, collection, emails, env)} :
             /\ store' = r.store
             /\ call' = [op |-> "process_emails", emails |-> emails, env |-> env,
                         status |-> r.status, emails_processed |-> r.emails_processed,
                         duplicates_found |-> r.duplicates_found,
                         job_responses_sent |-> r.job_responses_sent,
                         items |-> r.items, before |-> store]
    /\ pc' = "returned"
    /\ UNCHANGED loop
    /\ UNCHANGED collection

\* The agent: cycles, and the index cleared or lost between them.
NextAgent == ProcessEmails \/ ClearStore \/ Restart \/ Return
SpecAgent == Init /\ [][NextAgent]_vars

Processed == pc = "returned" /\ call.op = "process_emails"

\* The score of two emails.
EmailScore(a, b) ==
    SpecScore(Distance(Encode(EmbeddingText(a)), Encode(EmbeddingText(b))))

C17_CycleNeverAborted ==
    Processed =>
      /\ call.status = "success"
      /\ call.emails_processed = Len(call.emails)
      /\ Len(call.items) = Len(call.emails)
      /\ \A k \in DOMAIN call.items :
            /\ call.items[k].id = call.emails[k].id
            /\ call.items[k].summarized
            /\ call.items[k].marked

\* A cycle of two emails in which an insertion and a query fail.
C17_Witness ==
    /\ Processed
    /\ Len(call.emails) = 2
    /\ 1 \in call.env.addFailing
    /\ call.env.findFailing # {}
    /\ call.status = "success"
    /\ call.items[2].marked

(***************************************************************************)
(* The groups of a batch, told from the batch and the index alone.         *)
(***************************************************************************)

\* The stored ids, other than its own, whose score with the email reaches
\* the threshold.
Matches(email, threshold) ==
    {m \in DOMAIN store \ {email.id} : ScoreOf(email, m) >= threshold}

\* The query made for position j of the batch gets an answer.
QueryWorks(j) == j \notin call.failing /\ collection = "live"

\* Position j, if the loop queries it, gets at least one match.
Matching(j) == QueryWorks(j) /\ Matches(call.emails[j], call.threshold) # {}

\* The ids claimed (primary or member of a group) when the loop reaches
\* position j.
RECURSIVE ClaimedAt(_)
ClaimedAt(j) ==
    IF j = 1
    THEN {}
    ELSE LET claimed == ClaimedAt(j - 1)
             email == call.emails[j - 1]
         IN  IF email.id \notin claimed /\ Matching(j - 1)
             THEN claimed \cup {email.id} \cup Matches(email, call.threshold)
             ELSE claimed

Unclaimed(j) == call.emails[j].id \notin ClaimedAt(j)

\* The positions that were unclaimed when reached and had a match.
Starts == {j \in DOMAIN call.emails : Unclaimed(j) /\ Matching(j)}

\* The k-th element of a set of positions.
NthOf(S, k) == CHOOSE j \in S : Cardinality({i \in S : i < j}) = k - 1

\* The email of the batch that carries an id.
BatchEmail(id) == call.emails[CHOOSE j \in DOMAIN call.emails : call.emails[j].id = id]

(***************************************************************************)
(* C16  Group order and primary choice: detect_duplicates returns one      *)
(* group for each input position that was unclaimed when reached and had   *)
(* at least one match, in the order of these positions, and the primary of *)
(* the k-th group is the item at the k-th such position.                   *)
(***************************************************************************)
C16_GroupOrder ==
    Detected =>
      LET starts == Starts
      IN  /\ Len(call.value) = Cardinality(starts)
          /\ \A k \in DOMAIN call.value :
                call.value[k].primary_email_id = call.emails[NthOf(starts, k)].id

\* Two groups, whose primaries are the first and the second item of the batch.
C16_Witness ==
    /\ Detected
    /\ Len(call.value) = 2
    /\ call.value[1].primary_email_id = call.emails[1].id
    /\ call.value[2].primary_email_id = call.emails[2].id
    /\ call.emails[1].id # call.emails[2].id

(***************************************************************************)
(* C18  In every group returned by detect_duplicates, duplicate_ids and    *)
(* similarity_scores have the same length, similarity_scores[k] is the     *)
(* score of duplicate_ids[k] with the primary, and both are in the order   *)
(* in which the primary's query returns its matches: every stored match,   *)
(* once, nearest first.                                                    *)
(***************************************************************************)
C18_ParallelScores ==
    Detected =>
      \A g \in Range(call.value) :
        /\ Len(g.duplicate_ids) = Len(g.similarity_scores)
        /\ \A k \in DOMAIN g.duplicate_ids :
              g.similarity_scores[k] = ScoreOf(BatchEmail(g.primary_email_id), g.duplicate_ids[k])
        /\ NoRepeat(g.duplicate_ids)
        /\ Range(g.duplicate_ids) = Matches(BatchEmail(g.primary_email_id), call.threshold)
        /\ \A k \in DOMAIN g.similarity_scores :
              k > 1 => g.similarity_scores[k - 1] >= g.similarity_scores[k]

\* A group of two members with different scores.
C18_Witness ==
    /\ Detected
    /\ Len(call.value) = 1
    /\ Len(call.value[1].duplicate_ids) = 2
    /\ call.value[1].similarity_scores[1] > call.value[1].similarity_scores[2]

(***************************************************************************)
(* C19  No singleton groups: every group returned by detect_duplicates has *)
(* at least one member, and an id none of whose queries returned a match   *)
(* is the primary of no group.                                             *)
(***************************************************************************)
C19_NoSingletonGroups ==
    Detected =>
      /\ \A g \in Range(call.value) :
            /\ Len(g.duplicate_ids) >= 1
            /\ g.count = Len(g.duplicate_ids) + 1
      /\ \A j \in DOMAIN call.emails :
            (\A i \in DOMAIN call.emails :
                call.emails[i].id = call.emails[j].id => ~Matching(i))
            => \A g \in Range(call.value) : g.primary_email_id # call.emails[j].id

\* The first item is queried on a working, non-empty index and matches
\* nothing; the second starts a group.
C19_Witness ==
    /\ Detected
    /\ Len(call.emails) = 2
    /\ QueryWorks(1)
    /\ store # EmptyStore
    /\ Matches(call.emails[1], call.threshold) = {}
    /\ Len(call.value) = 1

(***************************************************************************)
(* C20  Claimed items are skipped: once an id is the primary or a member   *)
(* of a group, a later item of the batch with that id is not queried (no   *)
(* embedding, no query) and starts no group: an id is the primary of at    *)
(* most as many groups as it has unclaimed positions.                      *)
(***************************************************************************)
C20_ClaimedSkipped ==
    Detected =>
      /\ \A j \in DOMAIN call.emails :
            ~Unclaimed(j) => j \notin Range(call.queried)
      /\ \A id \in Ids :
            Cardinality({k \in DOMAIN call.value : call.value[k].primary_email_id = id})
            <= Cardinality({j \in DOMAIN call.emails :
                               call.emails[j].id = id /\ Unclaimed(j)})

\* The second item was claimed as a member of the first item's group and is
\* not queried.
C20_Witness ==
    /\ Detected
    /\ Len(call.emails) = 2
    /\ call.queried = <<1>>
    /\ Len(call.value) = 1
    /\ call.emails[2].id \in Range(call.value[1].duplicate_ids)

(***************************************************************************)
(* C21  An item whose own query yields no match starts no group and        *)
(* claims nothing: a position is queried exactly when no group formed      *)
(* before it holds its id, and an item that was queried without a match is *)
(* a member of every later group whose primary's query surfaces it.        *)
(***************************************************************************)
C21_UnmatchedStaysUnclaimed ==
    Detected =>
      LET starts == Starts
      IN  /\ \A j \in DOMAIN call.emails : Unclaimed(j) <=> j \in Range(call.queried)
          /\ \A j \in Range(call.queried), k \in DOMAIN call.value :
                (/\ ~Matching(j)
                 /\ NthOf(starts, k) > j
                 /\ call.emails[j].id \in
                       Matches(call.emails[NthOf(starts, k)], call.threshold))
                => call.emails[j].id \in Range(call.value[k].duplicate_ids)

\* The first item is queried, matches nothing, and is then a member of the
\* group of the second.
C21_Witness ==
    /\ Detected
    /\ call.queried = <<1, 2>>
    /\ call.failing = {}
    /\ ~Matching(1)
    /\ Len(call.value) = 1
    /\ call.value[1].primary_email_id = call.emails[2].id
    /\ call.emails[1].id \in Range(call.value[1].duplicate_ids)

(***************************************************************************)
(* C22  Read operations leave the index unchanged: a step in which         *)
(* find_similar_emails, detect_duplicates or get_email_count returns,      *)
(* with or without a failure, changes neither the stored items nor the     *)
(* collection.                                                             *)
(***************************************************************************)
ReadOps == {"find_similar_emails", "detect_duplicates", "get_email_count"}

C22_ReadsChangeNothing ==
    [][(pc' = "returned" /\ call'.op \in ReadOps)
         => (store' = store /\ collection' = collection)]_vars

\* A batch with an id that is not stored has been checked, a query failing,
\* against an index that holds items.
C22_Witness ==
    /\ Detected
    /\ store # EmptyStore
    /\ call.failing # {}
    /\ \E j \in DOMAIN call.emails : call.emails[j].id \notin DOMAIN store

(***************************************************************************)
(* C25  Self occupies a result slot: when the queried email is among the   *)
(* items the store returns, find_similar_emails returns at most limit - 1  *)
(* matches, even if limit or more other stored items reach the threshold.  *)
(***************************************************************************)
C25_SelfTakesASlot ==
    (Found /\ call.email.id \in Range(call.retrieved.ids))
      => Len(call.value) <= call.limit - 1

\* limit other items reach the threshold; one of them is not returned.
C25_Witness ==
    /\ Found
    /\ call.email.id \in Range(call.retrieved.ids)
    /\ Cardinality(Matches(call.email, call.threshold)) >= call.limit
    /\ Len(call.value) = call.limit - 1
    /\ call.limit > 1

(***************************************************************************)
(* C26  In the list detect_duplicates returns, no primary is a member of   *)
(* its own group, and no primary is the primary or a member of a group     *)
(* earlier in the list, even when the batch repeats an id.                 *)
(***************************************************************************)
C26_PrimariesFresh ==
    Detected =>
      \A k \in DOMAIN call.value :
        /\ call.value[k].primary_email_id \notin Range(call.value[k].duplicate_ids)
        /\ \A j \in DOMAIN call.value :
              j < k =>
                /\ call.value[k].primary_email_id # call.value[j].primary_email_id
                /\ call.value[k].primary_email_id \notin Range(call.value[j].duplicate_ids)

\* A batch that holds the same id twice yields one group for it.
C26_Witness ==
    /\ Detected
    /\ Len(call.emails) = 2
    /\ call.emails[1].id = call.emails[2].id
    /\ call.failing = {}
    /\ Len(call.value) = 1

(***************************************************************************)
(* C29  The number of stored items decreases only through clear_store;     *)
(* add_email raises it by exactly one when it stores a new id and leaves   *)
(* the index unchanged when the embedder or the store fails.  The first    *)
(* part fails: the items are lost when the process ends (see C12).         *)
(***************************************************************************)
C29_CountNeverDecreases ==
    [][/\ Count(store') < Count(store) => call'.op = "clear_store"
       /\ (pc' = "returned" /\ call'.op = "add_email") =>
             /\ (call'.fails \/ collection = "stale") => store' = store
             /\ (~call'.fails /\ collection = "live" /\ call'.email.id \notin DOMAIN store)
                  => Count(store') = Count(store) + 1]_vars

(***************************************************************************)
(* C23  Call budget, as claimed: for each email of a cycle the detector    *)
(* issues exactly one embedding call and at most two store calls (one      *)
(* insert, then one query), and repeats no call.  The first part fails:    *)
(* add_email and find_similar_emails each encode the text, so every email  *)
(* is embedded twice.                                                      *)
(***************************************************************************)
Occurrences(calls, name) == Cardinality({k \in DOMAIN calls : calls[k] = name})

C23_CallBudget ==
    Processed =>
      \A k \in DOMAIN call.items :
        /\ Occurrences(call.items[k].calls, "encode") = 1
        /\ Occurrences(call.items[k].calls, "add") <= 1
        /\ Occurrences(call.items[k].calls, "query") <= 1

(***************************************************************************)
(* C30  job_responses_sent is the number of fetched emails classified as   *)
(* job-related while auto-response is enabled, whether or not the reply    *)
(* was sent: a failing send does not stop the cycle, is counted, and the   *)
(* email is still marked as read.                                          *)
(***************************************************************************)
C30_JobResponsesCounted ==
    Processed =>
      /\ call.status = "success"
      /\ call.job_responses_sent = Cardinality(call.env.jobRelated)
      /\ ~call.env.autoResponse => call.job_responses_sent = 0
      /\ \A k \in DOMAIN call.items :
            /\ call.items[k].job <=> k \in call.env.jobRelated
            /\ call.items[k].marked

\* Two job emails whose replies could not be sent: both counted, both marked.
C30_Witness ==
    /\ Processed
    /\ call.env.sendFails
    /\ call.job_responses_sent = 2
    /\ \A k \in DOMAIN call.items :
          call.items[k].job /\ ~call.items[k].replied /\ call.items[k].marked

(***************************************************************************)
(* The index with its metadata.  add_email stores, next to the document    *)
(* and the embedding, the metadata of the email: its id, subject, sender   *)
(* and date (the subject is part of the text).  The specifications above   *)
(* leave the metadata out of the entries; here every email has a sender    *)
(* and a date, and the entries carry them.                                 *)
(***************************************************************************)

Senders == {"a@x.org", "b@x.org"}
Dates == {1, 2}

\* The emails of the mailbox, with every sender and date.
FullEmail(i, sender, date) ==
    [id |-> i, text |-> InboxText[i], sender |-> sender, date |-> date]
FullEmails == {FullEmail(i, s, d) : i \in Ids, s \in Senders, d \in Dates}

\* metadatas=[{"email_id": ..., "subject": ..., "sender": ..., "date": ...}]
Metadata(email) == [email_id |-> email.id, sender |-> email.sender, date |-> email.date]

\* collection.add(embeddings=..., documents=..., metadatas=..., ids=[id])
CollectionAddWithMetadata(st, id, document, embedding, metadata) ==
    IF id \in DOMAIN st
    THEN st
    ELSE [i \in DOMAIN st \cup {id} |->
            IF i = id THEN [document |-> document, embedding |-> embedding,
                            metadata |-> metadata]
                      ELSE st[i]]

\* add_email, with the metadata it stores.
AddEmailWithMetadata(st, coll, email, fails, dupRaises) ==
    IF fails \/ coll = "stale" \/ (email.id \in DOMAIN st /\ dupRaises)
    THEN [exc |-> FALSE, logged |-> TRUE, store |-> st]
    ELSE [exc |-> FALSE, logged |-> FALSE,
          store |-> CollectionAddWithMetadata(st, email.id, EmbeddingText(email),
                                              Encode(EmbeddingText(email)),
                                              Metadata(email))]

AddFullEmail ==
    /\ pc = "idle"
    /\ \E email \in FullEmails, fails, dupRaises \in BOOLEAN :
         \E r \in {AddEmailWithMetadata(store, collection, email, fails, dupRaises)} :
             /\ store' = r.store
             /\ call' = [op |-> "add_email", email |-> email, fails |-> fails,
                         exc |-> r.exc, logged |-> r.logged, before |-> store]
    /\ pc' = "returned"
    /\ UNCHANGED loop
    /\ UNCHANGED collection

FindSimilarFull ==
    /\ pc = "idle"
    /\ \E email \in FullEmails, threshold \in Thresholds, limit \in Limits,
          fails \in BOOLEAN :
         \E r \in {FindSimilarEmails(store, collection, email, threshold, limit,
                                     AnyTie, fails)} :
                call' = [op |-> "find_similar_emails", email |-> email,
                         threshold |-> threshold, limit |-> limit, fails |-> fails,
                         retrieved |-> r.results,
                         exc |-> r.exc, logged |-> r.logged, value |-> r.value]
    /\ pc' = "returned"
    /\ UNCHANGED loop
    /\ UNCHANGED <<store, collection>>

\* Batches of emails with different ids, in every order, with every metadata.
FullBatches ==
    {emails \in UNION {[1..n -> FullEmails] : n \in 1..MaxBatch} :
        \A j, k \in DOMAIN emails : j # k => emails[j].id # emails[k].id}

DetectFull ==
    /\ pc = "idle"
    /\ \E emails \in FullBatches, threshold \in Thresholds :
         \E r \in {DetectDuplicates(store, collection, emails, threshold, AnyTie, {})} :
             call' = [op |-> "detect_duplicates", emails |-> emails,
                      threshold |-> threshold, failing |-> {},
                      exc |-> r.exc, logged |-> r.logged, value |-> r.value,
                      queried |-> r.queried]
    /\ pc' = "returned"
    /\ UNCHANGED loop
    /\ UNCHANGED <<store, collection>>

NextMeta == AddFullEmail \/ FindSimilarFull \/ DetectFull \/ Return
SpecMeta == Init /\ [][NextMeta]_vars

\* The twin run: the same calls in the same order with the same ids and
\* texts, every sender and date replaced by one fixed sender and date.  Two
\* runs that differ only in senders and dates have the same twin.
TwinOf == [sender |-> "a@x.org", date |-> 1]
TwinEmail(email) == FullEmail(email.id, TwinOf.sender, TwinOf.date)
TwinEntry(i) ==
    LET e == FullEmail(i, TwinOf.sender, TwinOf.date)
    IN  AddEmailWithMetadata(EmptyStore, "live", e, FALSE, FALSE).store[i]
\* The index of the twin run: add_email keeps the first entry of an id, so
\* the twin holds the same ids, each as add_email writes its twin email.
TwinStore(st) == [i \in DOMAIN st |-> TwinEntry(i)]
TwinBatch(emails) == [k \in DOMAIN emails |-> TwinEmail(emails[k])]

(***************************************************************************)
(* C24  Matching ignores metadata: a query returns the same match ids and  *)
(* the same scores, and detect_duplicates the same groups, as the same     *)
(* call of the twin run, whose stored and queried items differ from this   *)
(* run's only in sender and date.  Hence any two runs that differ only in  *)
(* senders and dates return the same results.                              *)
(***************************************************************************)
C24_MetadataIgnored ==
    /\ Found =>
         call.value = FindSimilarEmails(TwinStore(store), collection,
                                        TwinEmail(call.email), call.threshold,
                                        call.limit, AnyTie, call.fails).value
    /\ Detected =>
         call.value = DetectDuplicates(TwinStore(store), collection,
                                       TwinBatch(call.emails), call.threshold,
                                       AnyTie, call.failing).value

\* A query returned a match whose stored sender and date differ from the
\* query's and from the twin's.
C24_Witness ==
    /\ Found
    /\ \E k \in DOMAIN call.value :
         LET m == store[call.value[k].id].metadata
         IN  /\ m.sender # call.email.sender
             /\ m.date # call.email.date
             /\ m.sender # TwinOf.sender
             /\ call.email.date # TwinOf.date

(***************************************************************************)
(* The dashboard (src/src/ui/app.py).  One event loop, one thread: the     *)
(* periodic task and the handler of POST /api/process are coroutines that  *)
(* both run EmailAgent.process_emails.  A coroutine keeps the thread until *)
(* it suspends at an await that yields to the loop, or returns.            *)
(*   loop.app         "init", "up" (serving), "down" (after shutdown)      *)
(*   loop.periodic    "none" (no task), "sleeping" (at asyncio.sleep),     *)
(*                    "cycle" (in process_emails), "ended"                 *)
(*   loop.cancelled   email_check_task.cancel() was called                 *)
(*   loop.running     the coroutine that holds the thread                  *)
(*   loop.last        how the last iteration of the periodic loop ended    *)
(*   loop.cycle[t]    the cycle of task t: the fetched emails, the index i *)
(*                    of the current one, the step it is at, the match ids *)
(*                    of its last query, the index as its last insert left *)
(*                    it                                                   *)
(***************************************************************************)

InCycle(t) == loop.cycle[t].at # "none"

\* Mutant: _handle_job_email awaits the send and yields to the event loop.
HandleJobEmailAwaitsSend == TRUE

\* await self._handle_job_email(email): the body of the coroutine contains
\* no await, so awaiting it never yields to the event loop.
HandleJobEmailSuspends == FALSE

\* Mutant: no except Exception clause, the exception ends the task.
IterationEndUncaught(exc) ==
    [periodic |-> IF exc THEN "ended" ELSE "sleeping",
     last |-> IF exc THEN "raised" ELSE "returned",
     errorLogged |-> FALSE]

\* The end of an iteration of  while True: try: ... except Exception as e:
\* logger.error(...)  -- the loop goes back to asyncio.sleep.
IterationEnd(exc) ==
    [periodic |-> "sleeping",
     last |-> IF exc THEN "raised" ELSE "returned",
     errorLogged |-> exc]

\* Task t may take its next step: it holds the thread, or nothing holds it
\* and t is suspended in its cycle (a cancelled task does not resume).
CanRun(t) ==
    \/ loop.running = t
    \/ /\ loop.running = "none"
       /\ InCycle(t)
       /\ ~(t = "periodic" /\ loop.cancelled)

\* startup_event: if settings.email_check_interval > 0: create_task(...)
Startup ==
    /\ loop.app = "init"
    /\ \E interval \in {0, 1} :
         loop' = [loop EXCEPT !.app = "up",
                              !.periodic = IF interval > 0 THEN "sleeping" ELSE "none"]
    /\ UNCHANGED <<store, collection, pc, call>>

\* shutdown_event: if email_check_task: email_check_task.cancel()
Shutdown ==
    /\ loop.app = "up"
    /\ loop.running = "none"
    /\ loop' = [loop EXCEPT !.app = "down",
                             !.cancelled = loop.periodic \in {"sleeping", "cycle"}]
    /\ UNCHANGED <<store, collection, pc, call>>

\* asyncio.sleep returns; logger.info(...); await agent.process_emails()
Wake ==
    /\ loop.periodic = "sleeping"
    /\ ~loop.cancelled
    /\ loop.running = "none"
    /\ loop' = [loop EXCEPT !.periodic = "cycle", !.running = "periodic",
                             !.cycle["periodic"] = [NoCycle EXCEPT !.at = "fetch",
                                                                   !.afterAdd = store]]
    /\ UNCHANGED <<store, collection, pc, call>>

\* The task is resumed with CancelledError:  except asyncio.CancelledError: break
CancelDelivered ==
    /\ loop.periodic \in {"sleeping", "cycle"}
    /\ loop.cancelled
    /\ loop.running = "none"
    /\ loop' = [loop EXCEPT !.periodic = "ended", !.cycle["periodic"] = NoCycle]
    /\ UNCHANGED <<store, collection, pc, call>>

\* POST /api/process:  result = await agent.process_emails()
Request ==
    /\ loop.app = "up"
    /\ loop.running = "none"
    /\ ~InCycle("manual")
    /\ loop' = [loop EXCEPT !.running = "manual",
                             !.cycle["manual"] = [NoCycle EXCEPT !.at = "fetch",
                                                                 !.afterAdd = store]]
    /\ UNCHANGED <<store, collection, pc, call>>

\* emails = self.gmail_service.fetch_emails(...);  if not emails: return ...
Fetch(t) ==
    /\ CanRun(t)
    /\ loop.cycle[t].at = "fetch"
    /\ \E emails \in Fetched :
         loop' = [loop EXCEPT !.running = t,
                              !.cycle[t].emails = emails,
                              !.cycle[t].i = IF emails = <<>> THEN 0 ELSE 1,
                              !.cycle[t].at = IF emails = <<>> THEN "finish" ELSE "add"]
    /\ UNCHANGED <<store, collection, pc, call>>

\* self.rag_service.add_email(email)
Insert(t) ==
    /\ CanRun(t)
    /\ loop.cycle[t].at = "add"
    /\ \E fails \in BOOLEAN :
         \E r \in {AddEmailResult(store, collection,
                                  loop.cycle[t].emails[loop.cycle[t].i], fails, FALSE)} :
             /\ store' = r.store
             /\ loop' = [loop EXCEPT !.running = t,
                                      !.cycle[t].at = "query",
                                      !.cycle[t].afterAdd = r.store]
    /\ UNCHANGED <<collection, pc, call>>

\* similar = self.rag_service.find_similar_emails(email, threshold=...)
Query(t) ==
    /\ CanRun(t)
    /\ loop.cycle[t].at = "query"
    /\ \E threshold \in Thresholds, fails \in BOOLEAN :
         \E r \in {FindSimilarEmails(store, collection,
                                     loop.cycle[t].emails[loop.cycle[t].i],
                                     threshold, DefaultLimit, AnyTie, fails)} :
             loop' = [loop EXCEPT !.running = t,
                                  !.cycle[t].at = "summarize",
                                  !.cycle[t].similar = MatchIds(r.value)]
    /\ UNCHANGED <<store, collection, pc, call>>

\* summarize_email;  if is_job_related(...): await self._handle_job_email(email)
Summarize(t) ==
    /\ CanRun(t)
    /\ loop.cycle[t].at = "summarize"
    /\ \E job \in BOOLEAN :
         loop' = [loop EXCEPT !.running = IF job /\ HandleJobEmailSuspends
                                          THEN "none" ELSE t,
                              !.cycle[t].at = "mark"]
    /\ UNCHANGED <<store, collection, pc, call>>

\* self.gmail_service.mark_as_read(email.id), then the next email
MarkAsRead(t) ==
    /\ CanRun(t)
    /\ loop.cycle[t].at = "mark"
    /\ loop' = [loop EXCEPT !.running = t,
                             !.cycle[t].similar = {},
                             !.cycle[t].i = IF @ < Len(loop.cycle[t].emails)
                                            THEN @ + 1 ELSE @,
                             !.cycle[t].at = IF loop.cycle[t].i < Len(loop.cycle[t].emails)
                                             THEN "add" ELSE "finish"]
    /\ UNCHANGED <<store, collection, pc, call>>

\* process_emails returns to the handler of /api/process, which answers with
\* the result, or with status 500 when an exception left process_emails.
FinishManual ==
    /\ CanRun("manual")
    /\ loop.cycle["manual"].at = "finish"
    /\ loop' = [loop EXCEPT !.running = "none", !.cycle["manual"] = NoCycle]
    /\ UNCHANGED <<store, collection, pc, call>>

\* process_emails returns to periodic_email_check.  exc: an exception left
\* process_emails (raised outside its try block or in its except clause).
FinishPeriodic ==
    /\ CanRun("periodic")
    /\ loop.cycle["periodic"].at = "finish"
    /\ \E exc \in BOOLEAN :
         \E r \in {IterationEnd(exc)} :
             loop' = [loop EXCEPT !.running = "none",
                                  !.cycle["periodic"] = NoCycle,
                                  !.periodic = r.periodic,
                                  !.last = r.last,
                                  !.errorLogged = r.errorLogged]
    /\ UNCHANGED <<store, collection, pc, call>>

CycleStep(t) == Fetch(t) \/ Insert(t) \/ Query(t) \/ Summarize(t) \/ MarkAsRead(t)

NextLoop ==
    \/ Startup
    \/ Shutdown
    \/ Wake
    \/ CancelDelivered
    \/ Request
    \/ \E t \in Tasks : CycleStep(t)
    \/ FinishManual
    \/ FinishPeriodic
SpecLoop == Init /\ [][NextLoop]_vars

\* Scheduling: a coroutine that holds the thread goes on until it returns
\* (every blocking call of a cycle returns), and the event loop runs its
\* ready callbacks in the order they became ready, so the periodic task whose
\* sleep is over is resumed although requests keep arriving.
SpecLoopLive ==
    /\ SpecLoop
    /\ SF_vars(Wake)
    /\ WF_vars(\E t \in Tasks : CycleStep(t))
    /\ WF_vars(FinishManual)
    /\ WF_vars(FinishPeriodic)

(***************************************************************************)
(* C27  Single writer within the process: a cycle started by the periodic  *)
(* task and a cycle started by /api/process are never in progress at the   *)
(* same time, and the query of an email runs against the index exactly as  *)
(* the insertion of that email by the same cycle left it.                  *)
(***************************************************************************)
C27_SingleWriter ==
    /\ ~(InCycle("periodic") /\ InCycle("manual"))
    /\ \A t \in Tasks :
         loop.cycle[t].at = "query" => store = loop.cycle[t].afterAdd

\* A manual cycle is about to query its second email, on an index that an
\* earlier cycle of the periodic task, now sleeping, has written to.
C27_Witness ==
    /\ loop.cycle["manual"].at = "query"
    /\ loop.cycle["manual"].i = 2
    /\ loop.periodic = "sleeping"
    /\ loop.last = "returned"
    /\ \E id \in DOMAIN store :
         \A k \in DOMAIN loop.cycle["manual"].emails :
             loop.cycle["manual"].emails[k].id # id

(***************************************************************************)
(* C28  The periodic loop survives a failed cycle: after an iteration that *)
(* raised, the error is logged and the task is back at its sleep (or in    *)
(* the next cycle) unless it was cancelled, and from that sleep the next   *)
(* cycle starts unless the task is cancelled first; the task ends only     *)
(* when it was cancelled, and once ended it never starts a cycle again.    *)
(***************************************************************************)
C28_LoopSurvivesFailure ==
    /\ (loop.last = "raised" /\ loop.periodic = "sleeping")
          ~> (loop.periodic = "cycle" \/ loop.cancelled)
    /\ [](/\ loop.last = "raised" => loop.errorLogged
          /\ (loop.last = "raised" /\ ~loop.cancelled)
                => loop.periodic \in {"sleeping", "cycle"}
          /\ loop.periodic = "ended" => loop.cancelled)
    /\ [][loop.periodic = "ended"
            => (loop'.periodic = "ended" /\ ~InCycle("periodic")')]_vars

\* The iteration after one that raised is in its cycle.
C28_Witness ==
    /\ loop.last = "raised"
    /\ loop.periodic = "cycle"
    /\ loop.cycle["periodic"].at = "query"
====
